---- MODULE Spec2Model ----
(***************************************************************************)
(* Model of src/meta.py: the metadata extraction pipeline                  *)
(* extract_image_metadata -> {container header, extract_exif_metadata      *)
(* (convert_gps), extract_hidden_metadata}.                                *)
(*                                                                         *)
(* Python strings are sequences of atoms.  An atom is a single character   *)
(* (every character of a path; ":" and " " everywhere) or a chunk of       *)
(* characters that contains neither ":" nor " ".  Python values are        *)
(* records [t, s, r]: t is the Python type, s the text of a string (or the *)
(* printable form of a number or a tag), r the rationals of an EXIF tag or *)
(* the floats formatted into a string.  A float is modelled by the exact   *)
(* rational it approximates, a normalised pair <<num, den>> with den > 0.  *)
(* The collaborators (os, PIL, exifread, hachoir) are inputs: each stage   *)
(* draws what its collaborator returns or raises.                          *)
(***************************************************************************)
EXTENDS Integers, Sequences, FiniteSets, TLC

VARIABLES image_path, pc, metadata, calls, hdrWritten, tags, exifRes,
          hiddenIn, hiddenRes, error,
          gpc, gvalue, gref, gret, gretOpp

vars == <<image_path, pc, metadata, calls, hdrWritten, tags, exifRes,
          hiddenIn, hiddenRes, error, gpc, gvalue, gref, gret, gretOpp>>

pipeVars == <<image_path, pc, metadata, calls, hdrWritten, tags, exifRes,
              hiddenIn, hiddenRes, error>>

gpsVars == <<gpc, gvalue, gref, gret, gretOpp>>

(***************************************************************************)
(* Bounds                                                                  *)
(***************************************************************************)
\* longest plaintext report the deep scanner's collaborator returns
MaxLines == 2
\* largest numerator and denominator of a rational in the converter harness
MaxNum == 2

(***************************************************************************)
(* Python values                                                           *)
(***************************************************************************)
Str(s) == [t |-> "str", s |-> s, r |-> <<>>]

PyInt(s) == [t |-> "int", s |-> s, r |-> <<>>]

None == [t |-> "none", s |-> <<"None">>, r |-> <<>>]

\* an exifread tag object: printable text and the list of its values
IfdTag(printable, values) == [t |-> "IfdTag", s |-> printable, r |-> values]

\* str(x): the printable text as a Python string
str(x) == Str(x.s)

\* f"{latitude}, {longitude}"
FormatPair(a, b) == [t |-> "str", s |-> <<"{}", ",", " ", "{}">>, r |-> <<a, b>>]

\* truth value of an object: None and the empty string are false
Truthy(x) == x.t # "none" /\ ~(x.t = "str" /\ x.s = <<>>)

EmptyDict == [k \in {} |-> None]

Update_FirstWins(d, e) == d @@ e

\* d.update(e): the entries of e overwrite those of d
Update(d, e) == e @@ d

\* d[k] = v
SetItem(d, k, v) == (k :> v) @@ d

\* d.get(k, default)
Get(d, k, default) == IF k \in DOMAIN d THEN d[k] ELSE default

(***************************************************************************)
(* Keys and literals of the source                                         *)
(***************************************************************************)
KFileName == <<"File", " ", "Name">>
KFileSize == <<"File", " ", "Size", " ", "(bytes)">>
KCreationTime == <<"Creation", " ", "Time">>
KModificationTime == <<"Modification", " ", "Time">>
KFormat == <<"Format">>
KMode == <<"Mode">>
KSize == <<"Size", " ", "(pixels)">>
KBitDepth == <<"Bit", " ", "Depth">>
KCompression == <<"Compression">>
KICCProfile == <<"ICC", " ", "Profile">>
KPILError == <<"PIL", " ", "Error">>
KGPSLatitude == <<"GPS", " ", "GPSLatitude">>
KGPSLongitude == <<"GPS", " ", "GPSLongitude">>
KGPSLatitudeRef == <<"GPS", " ", "GPSLatitudeRef">>
KGPSLongitudeRef == <<"GPS", " ", "GPSLongitudeRef">>
KGPSCoordinates == <<"GPS", " ", "Coordinates">>
KImageModel == <<"Image", " ", "Model">>
KImageSoftware == <<"Image", " ", "Software">>
KCameraModel == <<"Camera", " ", "Model">>
KSoftware == <<"Software">>
KHiddenMetadata == <<"Hidden", " ", "Metadata">>
KHiddenMetadataError == <<"Hidden", " ", "Metadata", " ", "Error">>
Unknown == <<"Unknown">>
UnableToParse == <<"Unable", " ", "to", " ", "parse">>

FilesystemKeys == {KFileName, KFileSize, KCreationTime, KModificationTime}

\* the container attributes in the order the source writes them
ContainerKeys == <<KFormat, KMode, KSize, KBitDepth, KCompression, KICCProfile>>

(***************************************************************************)
(* Paths: str.lower, str.endswith, os.path.basename                        *)
(***************************************************************************)
LowerChar(c) ==
  CASE c = "H" -> "h"
    [] c = "E" -> "e"
    [] c = "I" -> "i"
    [] c = "C" -> "c"
    [] c = "A" -> "a"
    [] OTHER -> c

Lower_AsIs(p) == p

Lower(p) == [i \in 1..Len(p) |-> LowerChar(p[i])]

EndsWith(p, suffix) ==
  /\ Len(p) >= Len(suffix)
  /\ SubSeq(p, Len(p) - Len(suffix) + 1, Len(p)) = suffix

DotHeic == <<".", "h", "e", "i", "c">>

\* os.path.basename: what follows the last "/"
Basename(p) ==
  LET slashes == {i \in 1..Len(p) : p[i] = "/"}
      last == IF slashes = {} THEN 0 ELSE CHOOSE i \in slashes : \A j \in slashes : j <= i
  IN SubSeq(p, last + 1, Len(p))

Paths ==
  { <<"a", ".", "h", "e", "i", "c">>,
    <<"d", "/", "A", ".", "H", "E", "I", "C">>,
    <<"a", ".", "H", "e", "i", "C">>,
    <<"d", "/", "a", ".", "j", "p", "g">>,
    <<"a", "h", "e", "i", "c">>,
    <<"a", ".", "h", "e", "i", "c", ".", "j", "p", "g">> }

(***************************************************************************)
(* convert_gps                                                             *)
(***************************************************************************)
RECURSIVE GCD(_, _)
GCD(a, b) == IF b = 0 THEN a ELSE GCD(b, a % b)

Abs(n) == IF n < 0 THEN -n ELSE n

\* the value of n/d, d # 0
Norm(n, d) ==
  LET g == GCD(Abs(n), Abs(d))
      sgn == IF d < 0 THEN -1 ELSE 1
  IN <<sgn * (n \div g), sgn * (d \div g)>>

FAdd(a, b) == Norm(a[1] * b[2] + b[1] * a[2], a[2] * b[2])

FDiv(a, k) == Norm(a[1], a[2] * k)

FNeg(a) == <<-a[1], a[2]>>

Returned(v) == [raised |-> FALSE, exc |-> "", val |-> v]

Raised(e, v) == [raised |-> TRUE, exc |-> e, val |-> v]

\* [float(v.num) / float(v.den) for v in values], then d, m, s = ...
convert_to_degrees(values) ==
  IF \E i \in 1..Len(values) : values[i][2] = 0
    THEN Raised("ZeroDivisionError", <<0, 1>>)
  ELSE IF Len(values) # 3
    THEN Raised("ValueError", <<0, 1>>)
  ELSE LET d == Norm(values[1][1], values[1][2])
           m == Norm(values[2][1], values[2][2])
           s == Norm(values[3][1], values[3][2])
       IN Returned(FAdd(FAdd(d, FDiv(m, 60)), FDiv(s, 3600)))

convert_gps_SouthOnly(value, ref) ==
  LET degrees == convert_to_degrees(value)
  IN IF degrees.raised THEN degrees
     ELSE IF ref \in {<<"S">>} THEN Returned(FNeg(degrees.val))
     ELSE degrees

\* value: the list of rationals of the tag; ref: a string
convert_gps(value, ref) ==
  LET degrees == convert_to_degrees(value)
  IN IF degrees.raised THEN degrees
     ELSE IF ref \in {<<"S">>, <<"W">>} THEN Returned(FNeg(degrees.val))
     ELSE degrees

(***************************************************************************)
(* extract_exif_metadata                                                   *)
(***************************************************************************)
\* for tag, value in tags.items(): metadata[tag] = str(value)
StringifyTags(tg) == [k \in DOMAIN tg |-> str(tg[k])]

GpsBranch_LatLonOnly(tg) ==
  /\ Truthy(Get(tg, KGPSLatitude, None))
  /\ Truthy(Get(tg, KGPSLongitude, None))

\* line 56
GpsBranch(tg) ==
  /\ Truthy(Get(tg, KGPSLatitude, None))
  /\ Truthy(Get(tg, KGPSLongitude, None))
  /\ Truthy(Get(tg, KGPSLatitudeRef, None))
  /\ Truthy(Get(tg, KGPSLongitudeRef, None))

CameraAndSoftware_IfPresent(md, tg) ==
  LET a == IF KImageModel \in DOMAIN tg THEN SetItem(md, KCameraModel, tg[KImageModel]) ELSE md
  IN IF KImageSoftware \in DOMAIN tg THEN SetItem(a, KSoftware, tg[KImageSoftware]) ELSE a

\* metadata["Camera Model"] = ...; metadata["Software"] = ...
CameraAndSoftware(md, tg) ==
  SetItem(SetItem(md, KCameraModel, Get(tg, KImageModel, Str(Unknown))),
          KSoftware, Get(tg, KImageSoftware, Str(Unknown)))

\* in: what open() and exifread.process_file do on the file
extract_exif_metadata(in) ==
  IF in.kind = "openfail" THEN Raised("OSError", EmptyDict)
  ELSE IF in.kind = "parsefail" THEN Raised("ExifreadError", EmptyDict)
  ELSE
    LET tg == in.tags
        md0 == StringifyTags(tg)
    IN IF GpsBranch(tg)
         THEN LET gps_lat == Get(tg, KGPSLatitude, None)
                  gps_lon == Get(tg, KGPSLongitude, None)
                  lat_ref == Get(tg, KGPSLatitudeRef, None)
                  lon_ref == Get(tg, KGPSLongitudeRef, None)
                  latitude == convert_gps(gps_lat.r, str(lat_ref).s)
                  longitude == convert_gps(gps_lon.r, str(lon_ref).s)
              IN IF latitude.raised THEN Raised(latitude.exc, EmptyDict)
                 ELSE IF longitude.raised THEN Raised(longitude.exc, EmptyDict)
                 ELSE Returned(CameraAndSoftware(
                        SetItem(md0, KGPSCoordinates,
                                FormatPair(latitude.val, longitude.val)), tg))
         ELSE Returned(CameraAndSoftware(md0, tg))

(***************************************************************************)
(* extract_hidden_metadata                                                 *)
(***************************************************************************)
NoRaise == -1

\* str(e) of the exception a collaborator raised
Message(kind) == Str(<<kind, " ", "failed">>)

\* item.split(": ", 1) if ": " in item else (item, "Unknown")
SplitLine(item) ==
  LET seps == {i \in 1..(Len(item) - 1) : item[i] = ":" /\ item[i + 1] = " "}
  IN IF seps = {} THEN <<item, Unknown>>
     ELSE LET i == CHOOSE j \in seps : \A k \in seps : j <= k
          IN <<SubSeq(item, 1, i - 1), SubSeq(item, i + 2, Len(item))>>

\* the loop body run on the first n lines
RECURSIVE InsertLines(_, _, _)
InsertLines(md, lines, n) ==
  IF n = 0 THEN md
  ELSE LET kv == SplitLine(lines[n])
       IN SetItem(InsertLines(md, lines, n - 1), kv[1], Str(kv[2]))

\* except Exception as e: metadata["Hidden Metadata Error"] = str(e)
HiddenExcept(md, kind) == SetItem(md, KHiddenMetadataError, Message(kind))

\* in: what hachoir does on the file
extract_hidden_metadata(in) ==
  CASE in.kind = "createParser raises" -> HiddenExcept(EmptyDict, in.kind)
    [] in.kind = "no parser" -> SetItem(EmptyDict, KHiddenMetadata, Str(UnableToParse))
    [] in.kind = "extractMetadata raises" -> HiddenExcept(EmptyDict, in.kind)
    [] in.kind = "no metadata" -> EmptyDict
    [] in.kind = "exportPlaintext is None" -> HiddenExcept(EmptyDict, in.kind)
    [] in.kind = "lines" ->
         IF in.raiseAfter = NoRaise
           THEN InsertLines(EmptyDict, in.lines, Len(in.lines))
           ELSE HiddenExcept(InsertLines(EmptyDict, in.lines, in.raiseAfter), in.kind)

(***************************************************************************)
(* What the collaborators can hand to each stage                           *)
(***************************************************************************)
\* PIL images: format, mode, size, bits (absent for BMP), info
Images ==
  { [format |-> Str(<<"JPEG">>), mode |-> Str(<<"RGB">>),
     size |-> Str(<<"640", "x", "480">>), hasBits |-> TRUE, bits |-> PyInt(<<"8">>),
     compression |-> None, icc_profile |-> Str(<<"profile">>)],
    [format |-> Str(<<"BMP">>), mode |-> Str(<<"P">>),
     size |-> Str(<<"1", "x", "1">>), hasBits |-> FALSE, bits |-> None,
     compression |-> PyInt(<<"0">>), icc_profile |-> None] }

\* the six values lines 26-31 compute, in order
ContainerValues(img) ==
  << img.format,
     img.mode,
     img.size,
     IF img.hasBits THEN img.bits ELSE Str(Unknown),
     IF img.compression = None THEN Str(<<"None">>) ELSE img.compression,
     IF Truthy(img.icc_profile) THEN Str(<<"Present">>) ELSE Str(<<"None">>) >>

\* the container attributes written before the read failed at attribute n + 1
RECURSIVE WriteContainer(_, _, _)
WriteContainer(md, img, n) ==
  IF n = 0 THEN md
  ELSE SetItem(WriteContainer(md, img, n - 1), ContainerKeys[n], ContainerValues(img)[n])

GoodLat == << <<35, 1>>, <<30, 1>>, <<0, 1>> >>
GoodLon == << <<139, 1>>, <<45, 1>>, <<36, 1>> >>
ZeroDen == << <<35, 1>>, <<30, 0>>, <<0, 1>> >>
TwoValues == << <<35, 1>>, <<30, 1>> >>

GpsTags(lat, lon, latRef, lonRef) ==
  (KGPSLatitude :> IfdTag(<<"[lat]">>, lat)) @@
  (KGPSLongitude :> IfdTag(<<"[lon]">>, lon)) @@
  (KGPSLatitudeRef :> IfdTag(latRef, <<>>)) @@
  (KGPSLongitudeRef :> IfdTag(lonRef, <<>>))

GpsKeys == {KGPSLatitude, KGPSLongitude, KGPSLatitudeRef, KGPSLongitudeRef}

Restrict(d, S) == [k \in S |-> d[k]]

ModelTags == (KImageModel :> IfdTag(<<"NIKON">>, <<>>))
SoftwareTags == (KImageSoftware :> IfdTag(<<"Ver.1.0">>, <<>>))
\* a tag whose name is also a container attribute's
ClashTags == (KFormat :> IfdTag(<<"exif">>, <<>>))

TagSets ==
  { Restrict(GpsTags(lat, lon, <<latRef>>, <<lonRef>>), S) :
      lat \in {GoodLat, ZeroDen, TwoValues}, lon \in {GoodLon, ZeroDen},
      latRef \in {"N", "S"}, lonRef \in {"E"},
      S \in {T \in SUBSET GpsKeys : Cardinality(T) >= 3} }
  \cup
  { g @@ m @@ c :
      g \in {EmptyDict, GpsTags(GoodLat, GoodLon, <<"N">>, <<"W">>)},
      m \in {EmptyDict, ModelTags, ModelTags @@ SoftwareTags},
      c \in {EmptyDict, ClashTags} }

ExifInputs ==
  { [kind |-> "openfail", tags |-> EmptyDict], [kind |-> "parsefail", tags |-> EmptyDict] }
  \cup { [kind |-> "ok", tags |-> tg] : tg \in TagSets }

Lines ==
  { <<"Format", ":", " ", "deep">>,
    <<"GPS", " ", "Coordinates", ":", " ", "deep">>,
    <<"JustAWord">>,
    <<"File", " ", "Name", ":", " ", "a", ":", " ", "b">> }

Reports == UNION { [1..n -> Lines] : n \in 0..MaxLines }

HiddenInputs ==
  { [kind |-> k, lines |-> <<>>, raiseAfter |-> NoRaise] :
      k \in {"createParser raises", "no parser", "extractMetadata raises",
             "no metadata", "exportPlaintext is None"} }
  \cup
  UNION { { [kind |-> "lines", lines |-> ls, raiseAfter |-> n] :
              n \in {NoRaise} \cup (0..Len(ls)) } : ls \in Reports \ {<<>>} }

NoExifInput == [kind |-> "not called", tags |-> EmptyDict]
NoHiddenInput == [kind |-> "not called", lines |-> <<>>, raiseAfter |-> NoRaise]

(***************************************************************************)
(* extract_image_metadata, one action per stage                            *)
(***************************************************************************)
Idle ==
  /\ metadata = EmptyDict /\ calls = <<>> /\ hdrWritten = EmptyDict
  /\ tags = NoExifInput /\ exifRes = Returned(EmptyDict)
  /\ hiddenIn = NoHiddenInput /\ hiddenRes = EmptyDict /\ error = ""

GpsIdle ==
  /\ gpc = "idle" /\ gvalue = <<>> /\ gref = <<"N">>
  /\ gret = Returned(<<0, 1>>) /\ gretOpp = Returned(<<0, 1>>)

Init ==
  /\ image_path \in Paths
  /\ pc = "stat"
  /\ Idle
  /\ GpsIdle

\* lines 17-22
FsEntries(path) ==
  (KFileName :> Str(Basename(path))) @@
  (KFileSize :> PyInt(<<"1024">>)) @@
  (KCreationTime :> Str(<<"ctime">>)) @@
  (KModificationTime :> Str(<<"mtime">>))

\* lines 17-22: the four filesystem entries, or the stat call raises
StatFile ==
  /\ pc = "stat"
  /\ \E exists \in BOOLEAN :
       IF exists
         THEN /\ metadata' = FsEntries(image_path)
              /\ calls' = Append(calls, "stat")
              /\ pc' = "header"
              /\ error' = error
         ELSE /\ pc' = "raised"
              /\ error' = "FileNotFoundError"
              /\ UNCHANGED <<metadata, calls>>
  /\ UNCHANGED <<image_path, hdrWritten, tags, exifRes, hiddenIn, hiddenRes>>
  /\ UNCHANGED gpsVars

\* what lines 24-33 write into metadata: failAt = 0 when Image.open raises,
\* n when reading the n-th attribute raises, NoRaise when nothing raises
HeaderEntries(img, failAt) ==
  IF failAt = NoRaise THEN WriteContainer(EmptyDict, img, Len(ContainerKeys))
  ELSE SetItem(WriteContainer(EmptyDict, img, IF failAt = 0 THEN 0 ELSE failAt - 1),
               KPILError, Message("PIL"))

ReadHeader ==
  /\ pc = "header"
  /\ \E img \in Images, failAt \in {NoRaise} \cup (0..Len(ContainerKeys)) :
       /\ hdrWritten' = HeaderEntries(img, failAt)
       /\ metadata' = Update(metadata, HeaderEntries(img, failAt))
  /\ calls' = Append(calls, "header")
  /\ pc' = "exif"
  /\ UNCHANGED <<image_path, tags, exifRes, hiddenIn, hiddenRes, error>>
  /\ UNCHANGED gpsVars

\* line 35
IsHeic(path) == EndsWith(Lower(path), DotHeic)

\* line 36
ExifStage ==
  /\ pc = "exif"
  /\ ~IsHeic(image_path)
  /\ \E in \in ExifInputs :
       LET res == extract_exif_metadata(in)
       IN /\ tags' = in
          /\ exifRes' = res
          /\ IF res.raised
               THEN /\ pc' = "raised"
                    /\ error' = res.exc
                    /\ metadata' = metadata
               ELSE /\ pc' = "hidden"
                    /\ error' = error
                    /\ metadata' = Update(metadata, res.val)
  /\ calls' = Append(calls, "exif")
  /\ UNCHANGED <<image_path, hdrWritten, hiddenIn, hiddenRes>>
  /\ UNCHANGED gpsVars

\* line 35, the condition false
SkipExif ==
  /\ pc = "exif"
  /\ IsHeic(image_path)
  /\ pc' = "hidden"
  /\ UNCHANGED <<image_path, metadata, calls, hdrWritten, tags, exifRes,
                 hiddenIn, hiddenRes, error>>
  /\ UNCHANGED gpsVars

\* lines 38-39
HiddenStage ==
  /\ pc = "hidden"
  /\ \E in \in HiddenInputs :
       /\ hiddenIn' = in
       /\ hiddenRes' = extract_hidden_metadata(in)
       /\ metadata' = Update(metadata, extract_hidden_metadata(in))
  /\ calls' = Append(calls, "hidden")
  /\ pc' = "done"
  /\ UNCHANGED <<image_path, hdrWritten, tags, exifRes, error>>
  /\ UNCHANGED gpsVars

Next == StatFile \/ ReadHeader \/ ExifStage \/ SkipExif \/ HiddenStage

Spec == Init /\ [][Next]_vars

(***************************************************************************)
(* convert_gps called on its own                                           *)
(***************************************************************************)
Rationals == {<<n, d>> : n \in (-1)..MaxNum, d \in 0..MaxNum}

RationalLists == (UNION { [1..n -> Rationals] : n \in 2..3 }) \cup {GoodLat, GoodLon}

Opposite(ref) ==
  CASE ref = <<"N">> -> <<"S">>
    [] ref = <<"S">> -> <<"N">>
    [] ref = <<"E">> -> <<"W">>
    [] ref = <<"W">> -> <<"E">>

InitGps ==
  /\ image_path = <<"a", ".", "j", "p", "g">>
  /\ pc = "idle"
  /\ Idle
  /\ gpc = "call"
  /\ gvalue \in RationalLists
  /\ gref \in {<<"N">>, <<"S">>, <<"E">>, <<"W">>}
  /\ gret = Returned(<<0, 1>>)
  /\ gretOpp = Returned(<<0, 1>>)

\* convert_gps(v, ref) and convert_gps(v, the opposite hemisphere)
CallConvertGps ==
  /\ gpc = "call"
  /\ gret' = convert_gps(gvalue, gref)
  /\ gretOpp' = convert_gps(gvalue, Opposite(gref))
  /\ gpc' = "done"
  /\ UNCHANGED <<gvalue, gref>>
  /\ UNCHANGED pipeVars

NextGps == CallConvertGps

SpecGps == InitGps /\ [][NextGps]_vars

(***************************************************************************)
(* Properties                                                              *)
(***************************************************************************)

\* C1: a call on a path that can be stat'd always returns a record; the only
\* exception that reaches the caller is a filesystem-access failure on the
\* input path.
ExtractNeverRaises ==
  pc = "raised" => error \in {"FileNotFoundError", "OSError"}

\* C2: the returned record holds, for every key, the value of the last stage
\* (filesystem, container header, EXIF decoder, deep scanner) that produced it,
\* and holds no other key.
LastStageWins ==
  pc = "done" =>
    LET exifOut == IF tags.kind = "not called" THEN EmptyDict ELSE exifRes.val
    IN /\ DOMAIN metadata = FilesystemKeys \cup DOMAIN hdrWritten
                              \cup DOMAIN exifOut \cup DOMAIN hiddenRes
       /\ \A k \in DOMAIN metadata :
            metadata[k] = IF k \in DOMAIN hiddenRes THEN hiddenRes[k]
                          ELSE IF k \in DOMAIN exifOut THEN exifOut[k]
                          ELSE IF k \in DOMAIN hdrWritten THEN hdrWritten[k]
                          ELSE FsEntries(image_path)[k]

LastStageWinsWitness ==
  /\ pc = "done"
  /\ tags.kind = "ok"
  /\ KFormat \in DOMAIN hdrWritten \cap DOMAIN exifRes.val \cap DOMAIN hiddenRes
  /\ hdrWritten[KFormat] # exifRes.val[KFormat]
  /\ exifRes.val[KFormat] # hiddenRes[KFormat]
  /\ hdrWritten[KFormat] # hiddenRes[KFormat]
  /\ metadata[KFormat] = hiddenRes[KFormat]

\* C3: when the path ends in .heic in any letter case the EXIF decoder is
\* never invoked and every EXIF-only key of the record comes from the deep
\* scanner; for any other path the EXIF decoder is invoked exactly once,
\* right after the container header read and before the deep scan.
HeicSkipsExif ==
  LET n == Len(image_path)
      heic == /\ n >= 5
              /\ image_path[n - 4] = "."
              /\ image_path[n - 3] \in {"h", "H"}
              /\ image_path[n - 2] \in {"e", "E"}
              /\ image_path[n - 1] \in {"i", "I"}
              /\ image_path[n] \in {"c", "C"}
      exifCalls == {i \in 1..Len(calls) : calls[i] = "exif"}
      exifOnly == GpsKeys \cup {KGPSCoordinates, KCameraModel, KSoftware,
                                KImageModel, KImageSoftware}
  IN /\ heic =>
          /\ exifCalls = {}
          /\ pc = "done" => \A k \in DOMAIN metadata \cap exifOnly : k \in DOMAIN hiddenRes
     /\ (~heic /\ (pc \in {"hidden", "done"} \/ (pc = "raised" /\ calls # <<>>))) =>
          /\ exifCalls = {3}
          /\ calls[2] = "header"
          /\ \A i \in 1..Len(calls) : calls[i] = "hidden" => i > 3

HeicSkipsExifWitness ==
  /\ pc = "done"
  /\ image_path = <<"d", "/", "A", ".", "H", "E", "I", "C">>
  /\ calls = <<"stat", "header", "hidden">>
  /\ KGPSCoordinates \in DOMAIN metadata

GpsFailureCaught ==
  (/\ tags.kind = "ok"
   /\ GpsKeys \subseteq DOMAIN tags.tags
   /\ \/ convert_gps(tags.tags[KGPSLatitude].r, tags.tags[KGPSLatitudeRef].s).raised
      \/ convert_gps(tags.tags[KGPSLongitude].r, tags.tags[KGPSLongitudeRef].s).raised)
  => /\ ~exifRes.raised
     /\ KGPSCoordinates \notin DOMAIN exifRes.val
     /\ DOMAIN tags.tags \cup {KCameraModel, KSoftware} \subseteq DOMAIN exifRes.val

\* C6: the deep scanner's result is exactly the single error entry whenever
\* an exception occurred in it, and exactly {"Hidden Metadata": "Unable to
\* parse"} when no parser could be constructed.
HiddenErrorSingleEntry ==
  pc = "done" =>
    /\ (\/ hiddenIn.kind \in {"createParser raises", "extractMetadata raises",
                              "exportPlaintext is None"}
        \/ hiddenIn.raiseAfter # NoRaise)
       => /\ DOMAIN hiddenRes = {KHiddenMetadataError}
          /\ hiddenRes[KHiddenMetadataError].t = "str"
    /\ hiddenIn.kind = "no parser"
       => hiddenRes = (KHiddenMetadata :> Str(UnableToParse))

\* C7 as stated: decoding a file with no EXIF segment returns a mapping with
\* no entries at all.
NoExifEmpty ==
  (tags.kind = "ok" /\ tags.tags = EmptyDict) =>
    /\ ~exifRes.raised
    /\ DOMAIN exifRes.val = {}

\* C7: decoding a file with no EXIF segment does not raise and returns
\* exactly the two default entries "Camera Model" = "Unknown" and
\* "Software" = "Unknown".
NoExifDefaultsOnly ==
  (tags.kind = "ok" /\ tags.tags = EmptyDict) =>
    /\ ~exifRes.raised
    /\ DOMAIN exifRes.val = {KCameraModel, KSoftware}
    /\ exifRes.val[KCameraModel] = [t |-> "str", s |-> <<"Unknown">>, r |-> <<>>]
    /\ exifRes.val[KSoftware] = [t |-> "str", s |-> <<"Unknown">>, r |-> <<>>]

NoExifWitness ==
  /\ pc = "done"
  /\ tags.kind = "ok"
  /\ tags.tags = EmptyDict
  /\ metadata[KCameraModel].s = <<"Unknown">>

\* C8: every value of the returned record is a string.
AllValuesStrings ==
  pc = "done" => \A k \in DOMAIN metadata : metadata[k].t = "str"

\* C9: for a triple of rationals with non-zero denominators convert_gps
\* returns d + m/60 + s/3600, negated exactly for "S" and "W", so the results
\* for opposite hemispheres are each other's negation.
GpsSignSymmetric ==
  (/\ gpc = "done"
   /\ Len(gvalue) = 3
   /\ \A i \in 1..3 : gvalue[i][2] # 0)
  => LET den == gvalue[1][2] * gvalue[2][2] * gvalue[3][2] * 3600
         num == 3600 * gvalue[1][1] * gvalue[2][2] * gvalue[3][2]
                + 60 * gvalue[2][1] * gvalue[1][2] * gvalue[3][2]
                + gvalue[3][1] * gvalue[1][2] * gvalue[2][2]
         sign == IF gref \in {<<"S">>, <<"W">>} THEN -1 ELSE 1
     IN /\ ~gret.raised /\ ~gretOpp.raised
        /\ gret.val[2] > 0
        /\ gret.val[1] * den = sign * num * gret.val[2]
        /\ gretOpp.val[2] = gret.val[2]
        /\ gretOpp.val[1] = -gret.val[1]

GpsSignSymmetricWitness ==
  /\ gpc = "done"
  /\ gvalue = << <<35, 1>>, <<30, 1>>, <<0, 1>> >>
  /\ gref = <<"W">>
  /\ gret.val = <<-71, 2>>
  /\ gretOpp.val = <<71, 2>>

\* C10: a failed container header read contributes exactly one entry, the
\* error text, and no container attribute; the EXIF stage (unless skipped)
\* and the deep scan still run.
HeaderFailureSingleEntry ==
  KPILError \in DOMAIN hdrWritten =>
    /\ DOMAIN hdrWritten = {KPILError}
    /\ pc = "done" => calls[Len(calls)] = "hidden"

====
